---- MODULE Spec2Model ----
(***************************************************************************)
(* A model of src/main.rs: the in-memory todo store                        *)
(* (Arc<RwLock<HashMap<Uuid, Todo>>>), the three store handlers, the       *)
(* router with its layer stack (HandleError / timeout / trace / extension) *)
(* and the track_metrics middleware installed with route_layer.            *)
(*                                                                         *)
(* Every request is a task of the runtime.  A task runs its synchronous    *)
(* code without being cancelled; it can only be dropped by the timeout     *)
(* layer while it is suspended at an .await.  Tasks on different worker    *)
(* threads interleave at the places where they touch shared state: the     *)
(* RwLock of the store and the metrics recorder.                           *)
(***************************************************************************)
EXTENDS Integers, FiniteSets, Sequences, TLC

\* number of requests served in one run
NumReqs == 2
\* number of distinct values Uuid::new_v4 can return
MaxUuid == 2

Reqs == 1..NumReqs
Uuids == 1..MaxUuid

\* Option<String>::None (a todo without a user)
Null == "null"
\* Option<Todo>::None
None == [none |-> TRUE]
\* a request without a body
NoBody == [empty |-> TRUE]
\* a request body that the Json extractor cannot turn into a CreateTodo
Malformed == [malformed |-> TRUE]
\* no route of the router matches the path
NoRoute == <<>>
\* nobody holds the write lock
NoWriter == 0

(***************************************************************************)
(* Data: Todo, CreateTodo, the seeded stores the tests build.              *)
(***************************************************************************)
Todo(id, user, text, completed) ==
    [id |-> id, user |-> user, text |-> text, completed |-> completed]

\* the bodies the Json extractor accepts: the one of tests::save_note
CreateTodo == {[text |-> "test todo", user |-> "user"]}

\* Db::default() in main and in tests::empty_list
EmptyDb == [k \in {} |-> None]

\* a store the caller of app(db) has filled, as tests::get_note_by_id does:
\* one Todo, without a user and completed
SeededDb == [k \in {1} |-> Todo(1, Null, "todo 1", TRUE)]

\* an insert that rebuilds the map around the new entry
Insert_alone(map, k, v) == [x \in {k} |-> v]

\* HashMap::insert: a new key is added, an existing key is overwritten
Insert(map, k, v) == [x \in (DOMAIN map) \cup {k} |-> IF x = k THEN v ELSE map[x]]

\* HashMap::get(..).cloned(): Some(todo) or None
Get(map, k) == IF k \in DOMAIN map THEN map[k] ELSE None

\* HashMap::values(): the stored todos, in no meaningful order
Values(map) == {map[k] : k \in DOMAIN map}

(***************************************************************************)
(* Requests a client can send: to the store, to /metrics, with a method a  *)
(* route does not serve, to a path without a route.  The route             *)
(* /api-doc/openapi.json is in the router's table; its handler only        *)
(* renders the generated document and no request to it is sent here.       *)
(***************************************************************************)
Request(method, uri, json) == [method |-> method, uri |-> uri, json |-> json]

Requests ==
    {Request("POST", <<"/todos">>, j) : j \in CreateTodo \cup {Malformed}}
    \cup {Request("GET", <<"/todos">>, NoBody)}
    \cup {Request("GET", <<"/todos/", u>>, NoBody) : u \in Uuids}
    \cup {Request("GET", <<"/metrics">>, NoBody)}
    \cup {Request("DELETE", <<"/todos">>, NoBody)}
    \cup {Request("GET", <<"/nope">>, NoBody)}

VARIABLES
    db,        \* the HashMap behind the RwLock
    readers,   \* requests holding the read lock
    writer,    \* the request holding the write lock, or NoWriter
    issued,    \* identifiers Uuid::new_v4 has returned (seeded ones included)
    counter,   \* http_requests_total, per label combination
    histogram, \* http_requests_duration_seconds: observations per label combination
    pc,        \* where each request is
    req,       \* the request each task serves
    labels,    \* method and path captured by track_metrics before next.run
    todo,      \* save_todo's local `todo`
    cursor,    \* get_todos: the last key the values() iterator has passed
    vec,       \* get_todos: the Vec being collected
    resp,      \* the response of the inner service, then of the request
    error,     \* the BoxError the timeout layer returned for the request, "" if none
    db0,       \* history: the store app(db) was built with
    before,    \* history: the requests already returned when this one arrived
    snap,      \* history: the store when get_todos took the read lock
    recorder,  \* the process-wide recorder of the metrics crate: "unset" or "installed"
    panicked   \* a call of app has panicked

vars == <<db, readers, writer, issued, counter, histogram, pc, req, labels,
          todo, cursor, vec, resp, error, db0, before, snap, recorder, panicked>>

(***************************************************************************)
(* Responses and JSON bodies.                                              *)
(***************************************************************************)
Response(status, body) == [status |-> status, body |-> body]

\* a response without a JSON body (a bare status code, or text)
Plain == [json |-> "none"]
\* Json(Vec<Todo>), the order of the items left out
JsonArray(items) == [json |-> "array", items |-> items]
\* Json(Option<Todo>): serde writes None as null
JsonOption(opt) == IF opt = None THEN [json |-> "null"] ELSE [json |-> "object", todo |-> opt]
\* Json(Todo)
JsonTodo(t) == [json |-> "object", todo |-> t]

NoResponse == Response(0, Plain)

(***************************************************************************)
(* The router of app(): the four routes, their method routers and the      *)
(* fallback.                                                               *)
(***************************************************************************)
\* the MatchedPath extension the router stores in the request, or NoRoute
MatchedPath(uri) ==
    CASE uri = <<"/todos">> -> <<"/todos">>
      [] Len(uri) = 2 /\ uri[1] = "/todos/" -> <<"/todos/:id">>
      [] uri = <<"/metrics">> -> <<"/metrics">>
      [] uri = <<"/api-doc/openapi.json">> -> <<"/api-doc/openapi.json">>
      [] OTHER -> NoRoute

\* the handler the matched route's method router calls
Handler(q) ==
    LET route == MatchedPath(q.uri) IN
    CASE route = NoRoute -> "fallback"
      [] route = <<"/todos">> /\ q.method = "GET" -> "get_todos"
      [] route = <<"/todos">> /\ q.method = "POST" -> "save_todo"
      [] route = <<"/todos/:id">> /\ q.method = "GET" -> "get_todo_by_id"
      [] route = <<"/metrics">> /\ q.method = "GET" -> "metrics"
      [] route = <<"/api-doc/openapi.json">> /\ q.method = "GET" -> "openapi"
      [] OTHER -> "method_not_allowed"

\* an error handler that treats the timeout like any other error
handle_error_unhandled(e) == Response(500, Plain)

\* the closure of HandleErrorLayer: the error of the timeout layer becomes 408,
\* any other error 500 with a text
handle_error(e) ==
    IF e = "Elapsed" THEN Response(408, Plain) ELSE Response(500, Plain)

(***************************************************************************)
(* std::sync::RwLock and Uuid::new_v4.                                     *)
(***************************************************************************)
\* a lock that lets readers in while a writer holds it
CanRead_always == TRUE

\* read() returns when no writer holds the lock
CanRead == writer = NoWriter

\* a lock whose writers do not wait for the readers
CanWrite_ignoring_readers == writer = NoWriter

\* write() returns when nobody holds the lock
CanWrite == writer = NoWriter /\ readers = {}

\* a generator that can return an identifier it returned before
new_v4_repeating == Uuids

\* the values Uuid::new_v4() can return: version-4 identifiers are taken to be
\* unique, so none that was returned before
new_v4 == Uuids \ issued

\* a store that is a private copy of the map app(db) was built with
todos_copied == db0

\* the Extension<Db> every handler receives: a clone of the Arc, the one shared map
todos == db

\* a Todo built with the inputs in each other's place
Todo_swapped(id, input) == Todo(id, input.text, input.user, FALSE)

\* save_todo: Todo { id, user: input.user, text: input.text, completed: false }
NewTodo(id, input) == Todo(id, input.user, input.text, FALSE)

\* a get_todo_by_id that answers 404 when the todo is not found
get_todo_by_id_404(opt) ==
    IF opt = None THEN Response(404, Plain) ELSE Response(200, JsonOption(opt))

\* get_todo_by_id: Json(option), always with status 200
get_todo_by_id_response(opt) == Response(200, JsonOption(opt))

\* a label taken from the request's own path
PathLabel_literal(q) == q.uri

(***************************************************************************)
(* track_metrics.                                                          *)
(***************************************************************************)
\* the `path` label: the matched route when there is one, else the literal path
PathLabel(q) == IF MatchedPath(q.uri) # NoRoute THEN MatchedPath(q.uri) ELSE q.uri

\* the label set of a recorded request
Labels(r) == [method |-> labels[r].method, path |-> labels[r].path,
              status |-> resp[r].status]

\* a recorder that sets the metric instead of adding to it
Record_set(metric, l) ==
    [x \in (DOMAIN metric) \cup {l} |-> IF x = l THEN 1 ELSE metric[x]]

\* increment_counter! / histogram!: one more observation under label l
Record(metric, l) ==
    IF l \in DOMAIN metric
    THEN [metric EXCEPT ![l] = @ + 1]
    ELSE [x \in (DOMAIN metric) \cup {l} |-> IF x = l THEN 1 ELSE metric[x]]

\* the value of a metric under label l
Count(metric, l) == IF l \in DOMAIN metric THEN metric[l] ELSE 0

NoLabels == [method |-> "", path |-> NoRoute]
NoRequest == Request("", NoRoute, NoBody)

Init ==
    /\ db \in {EmptyDb, SeededDb}
    /\ db0 = db
    /\ issued = DOMAIN db
    /\ readers = {}
    /\ writer = NoWriter
    /\ counter = [l \in {} |-> 0]
    /\ histogram = [l \in {} |-> 0]
    /\ pc = [r \in Reqs |-> "idle"]
    /\ req = [r \in Reqs |-> NoRequest]
    /\ labels = [r \in Reqs |-> NoLabels]
    /\ todo = [r \in Reqs |-> None]
    /\ cursor = [r \in Reqs |-> 0]
    /\ vec = [r \in Reqs |-> {}]
    /\ resp = [r \in Reqs |-> NoResponse]
    /\ error = [r \in Reqs |-> ""]
    /\ before = [r \in Reqs |-> {}]
    /\ snap = [r \in Reqs |-> EmptyDb]
    /\ recorder = "unset"
    /\ panicked = FALSE

\* history, kept for the requests to the store: the requests whose response
\* had been returned when request q arrived
Earlier(q) ==
    IF Handler(q) \in {"get_todos", "get_todo_by_id", "save_todo"}
    THEN {s \in Reqs : pc[s] = "done"}
    ELSE {}

\* PrometheusBuilder::install_recorder: Ok when it has set the process-wide
\* recorder, Err when a recorder is already set
install_recorder == IF recorder = "unset" THEN "Ok" ELSE "Err"

\* app(db): setup_metrics_recorder() unwraps the result of install_recorder;
\* on Ok the router is built and returned, on Err the call panics.  The callers
\* build their router before they send a request, and the process is followed
\* up to its first panic.
app ==
    /\ ~panicked
    /\ \A r \in Reqs : pc[r] = "idle"
    /\ recorder' = "installed"
    /\ panicked' = (install_recorder = "Err")
    /\ UNCHANGED <<db, readers, writer, issued, counter, histogram, pc, req,
                   labels, todo, cursor, vec, resp, error, db0, before, snap>>

\* a request arrives at the router app returned; requests are numbered in the
\* order they arrive
Arrives(r) ==
    /\ recorder = "installed"
    /\ ~panicked
    /\ pc[r] = "idle"
    /\ \A s \in Reqs : s < r => pc[s] # "idle"

\* A request for a path no route matches: the router answers from its fallback.
\* route_layer put track_metrics around the routes only, so it does not run.
Fallback(r, q) ==
    /\ Arrives(r)
    /\ Handler(q) = "fallback"
    /\ req' = [req EXCEPT ![r] = q]
    /\ resp' = [resp EXCEPT ![r] = Response(404, Plain)]
    /\ pc' = [pc EXCEPT ![r] = "done"]
    /\ UNCHANGED <<db, readers, writer, issued, counter, histogram, labels,
                   todo, cursor, vec, error, db0, before, snap,
                   recorder, panicked>>

\* track_metrics up to next.run(req): the path and the method are captured
track_metrics(r, q) ==
    /\ Arrives(r)
    /\ Handler(q) # "fallback"
    /\ req' = [req EXCEPT ![r] = q]
    /\ before' = [before EXCEPT ![r] = Earlier(q)]
    /\ labels' = [labels EXCEPT ![r] = [method |-> q.method, path |-> PathLabel(q)]]
    /\ pc' = [pc EXCEPT ![r] = "next"]
    /\ UNCHANGED <<db, readers, writer, issued, counter, histogram,
                   todo, cursor, vec, resp, error, db0, snap,
                   recorder, panicked>>

\* the inner service answered: track_metrics goes on after next.run(req).await
Respond(r, response) ==
    /\ resp' = [resp EXCEPT ![r] = response]
    /\ pc' = [pc EXCEPT ![r] = "counter"]

\* the method router of a matched route has no handler for the method
MethodNotAllowed(r) ==
    /\ pc[r] = "next"
    /\ Handler(req[r]) = "method_not_allowed"
    /\ Respond(r, Response(405, Plain))
    /\ UNCHANGED <<db, readers, writer, issued, counter, histogram, req, labels,
                   todo, cursor, vec, error, db0, before, snap,
                   recorder, panicked>>

\* a render that takes the counters out of the recorder
metrics_resetting(r) ==
    /\ pc[r] = "next"
    /\ Handler(req[r]) = "metrics"
    /\ counter' = [l \in {} |-> 0]
    /\ Respond(r, Response(200, Plain))
    /\ UNCHANGED <<db, readers, writer, issued, histogram, req, labels,
                   todo, cursor, vec, error, db0, before, snap,
                   recorder, panicked>>

\* GET /metrics: recorder_handle.render()
metrics(r) ==
    /\ pc[r] = "next"
    /\ Handler(req[r]) = "metrics"
    /\ Respond(r, Response(200, Plain))
    /\ UNCHANGED <<db, readers, writer, issued, counter, histogram, req, labels,
                   todo, cursor, vec, error, db0, before, snap,
                   recorder, panicked>>

\* get_todos: todos.read().unwrap()
get_todos_read(r) ==
    /\ pc[r] = "next"
    /\ Handler(req[r]) = "get_todos"
    /\ CanRead
    /\ readers' = readers \cup {r}
    /\ snap' = [snap EXCEPT ![r] = todos]
    /\ pc' = [pc EXCEPT ![r] = "values"]
    /\ UNCHANGED <<db, writer, issued, counter, histogram, req, labels,
                   todo, cursor, vec, resp, error, db0, before,
                   recorder, panicked>>

\* get_todos: .values().cloned() yields the next entry, which is collected
get_todos_values(r) ==
    /\ pc[r] = "values"
    /\ \E k \in DOMAIN todos :
        /\ k > cursor[r]
        /\ \A j \in DOMAIN todos : j > cursor[r] => k <= j
        /\ cursor' = [cursor EXCEPT ![r] = k]
        /\ vec' = [vec EXCEPT ![r] = @ \cup {todos[k]}]
    /\ UNCHANGED <<db, readers, writer, issued, counter, histogram, pc, req,
                   labels, todo, resp, error, db0, before, snap,
                   recorder, panicked>>

\* an iterator that may stop before the last entry
Exhausted_early(r) == TRUE

\* get_todos: the values() iterator has passed every entry of the map
Exhausted(r) == \A k \in DOMAIN todos : k <= cursor[r]

\* a get_todos that takes the entries out of the map (drain) to collect them
get_todos_draining(r) ==
    /\ pc[r] = "values"
    /\ Exhausted(r)
    /\ db' = EmptyDb
    /\ readers' = readers \ {r}
    /\ Respond(r, Response(200, JsonArray(vec[r])))
    /\ UNCHANGED <<writer, issued, counter, histogram, req, labels,
                   todo, cursor, vec, error, db0, before, snap,
                   recorder, panicked>>

\* get_todos: the iterator is exhausted, the guard is dropped, Json(vec) returned
get_todos_collect(r) ==
    /\ pc[r] = "values"
    /\ Exhausted(r)
    /\ readers' = readers \ {r}
    /\ Respond(r, Response(200, JsonArray(vec[r])))
    /\ UNCHANGED <<db, writer, issued, counter, histogram, req, labels,
                   todo, cursor, vec, error, db0, before, snap,
                   recorder, panicked>>

\* get_todo_by_id: todos.read().unwrap()
get_todo_by_id_read(r) ==
    /\ pc[r] = "next"
    /\ Handler(req[r]) = "get_todo_by_id"
    /\ CanRead
    /\ readers' = readers \cup {r}
    /\ pc' = [pc EXCEPT ![r] = "get"]
    /\ UNCHANGED <<db, writer, issued, counter, histogram, req, labels,
                   todo, cursor, vec, resp, error, db0, before, snap,
                   recorder, panicked>>

\* get_todo_by_id: .get(&id).cloned(), the guard is dropped, Json(option) returned
get_todo_by_id_get(r) ==
    /\ pc[r] = "get"
    /\ readers' = readers \ {r}
    /\ Respond(r, get_todo_by_id_response(Get(todos, req[r].uri[2])))
    /\ UNCHANGED <<db, writer, issued, counter, histogram, req, labels,
                   todo, cursor, vec, error, db0, before, snap,
                   recorder, panicked>>

\* save_todo: the Json extractor has read and parsed the body, the Todo is built
save_todo_new(r) ==
    /\ pc[r] = "next"
    /\ Handler(req[r]) = "save_todo"
    /\ req[r].json \in CreateTodo
    /\ \E id \in new_v4 :
        /\ todo' = [todo EXCEPT ![r] = NewTodo(id, req[r].json)]
        /\ issued' = issued \cup {id}
    /\ pc' = [pc EXCEPT ![r] = "write"]
    /\ UNCHANGED <<db, readers, writer, counter, histogram, req, labels,
                   cursor, vec, resp, error, db0, before, snap,
                   recorder, panicked>>

\* save_todo: the Json extractor rejects the body, the handler is not called
JsonRejection(r) ==
    /\ pc[r] = "next"
    /\ Handler(req[r]) = "save_todo"
    /\ req[r].json = Malformed
    /\ Respond(r, Response(422, Plain))
    /\ UNCHANGED <<db, readers, writer, issued, counter, histogram, req, labels,
                   todo, cursor, vec, error, db0, before, snap,
                   recorder, panicked>>

\* save_todo: todos.write().unwrap()
save_todo_write(r) ==
    /\ pc[r] = "write"
    /\ CanWrite
    /\ writer' = r
    /\ pc' = [pc EXCEPT ![r] = "insert"]
    /\ UNCHANGED <<db, readers, issued, counter, histogram, req, labels,
                   todo, cursor, vec, resp, error, db0, before, snap,
                   recorder, panicked>>

\* a save_todo that answers with the write guard still alive
save_todo_insert_holding(r) ==
    /\ pc[r] = "insert"
    /\ db' = Insert(todos, todo[r].id, todo[r])
    /\ Respond(r, Response(201, JsonTodo(todo[r])))
    /\ UNCHANGED <<readers, writer, issued, counter, histogram, req, labels,
                   todo, cursor, vec, error, db0, before, snap,
                   recorder, panicked>>

\* save_todo: .insert(todo.id, todo.clone()), the guard is dropped,
\* (StatusCode::CREATED, Json(todo)) returned
save_todo_insert(r) ==
    /\ pc[r] = "insert"
    /\ db' = Insert(todos, todo[r].id, todo[r])
    /\ writer' = NoWriter
    /\ Respond(r, Response(201, JsonTodo(todo[r])))
    /\ UNCHANGED <<readers, issued, counter, histogram, req, labels,
                   todo, cursor, vec, error, db0, before, snap,
                   recorder, panicked>>

\* a save_todo that awaits with the write guard alive
Suspended_holding(r) == pc[r] \in {"next", "insert"} /\ Handler(req[r]) = "save_todo"

\* a timeout that could also drop a handler that is past its last .await
Suspended_anywhere(r) == pc[r] \in {"next", "write"} /\ Handler(req[r]) = "save_todo"

\* the handlers that wait at an .await: save_todo, for the request body
Suspended(r) == pc[r] = "next" /\ Handler(req[r]) = "save_todo"

\* .timeout(Duration::from_secs(10)): the timer fires while the handler is
\* suspended; the handler's future is dropped and HandleErrorLayer answers
Timeout(r) ==
    /\ Suspended(r)
    /\ error' = [error EXCEPT ![r] = "Elapsed"]
    /\ Respond(r, handle_error(error'[r]))
    /\ UNCHANGED <<db, readers, writer, issued, counter, histogram, req, labels,
                   todo, cursor, vec, db0, before, snap,
                   recorder, panicked>>

\* a recorder that takes the store's read lock to update the counter
increment_counter_locked(r) ==
    /\ pc[r] = "counter"
    /\ CanRead
    /\ counter' = Record(counter, Labels(r))
    /\ pc' = [pc EXCEPT ![r] = "histogram"]
    /\ UNCHANGED <<db, readers, writer, issued, histogram, req, labels,
                   todo, cursor, vec, resp, error, db0, before, snap,
                   recorder, panicked>>

\* a recorder whose failure is propagated: the response becomes a 500
increment_counter_failing(r) ==
    /\ pc[r] = "counter"
    /\ counter' = Record(counter, Labels(r))
    /\ resp' = [resp EXCEPT ![r] = Response(500, Plain)]
    /\ pc' = [pc EXCEPT ![r] = "histogram"]
    /\ UNCHANGED <<db, readers, writer, issued, histogram, req, labels,
                   todo, cursor, vec, error, db0, before, snap,
                   recorder, panicked>>

\* track_metrics: metrics::increment_counter!("http_requests_total", &labels)
increment_counter(r) ==
    /\ pc[r] = "counter"
    /\ counter' = Record(counter, Labels(r))
    /\ pc' = [pc EXCEPT ![r] = "histogram"]
    /\ UNCHANGED <<db, readers, writer, issued, histogram, req, labels,
                   todo, cursor, vec, resp, error, db0, before, snap,
                   recorder, panicked>>

\* a track_metrics that returns the response without the histogram! call
record_histogram_skipping(r) ==
    /\ pc[r] = "histogram"
    /\ pc' = [pc EXCEPT ![r] = "done"]
    /\ UNCHANGED <<db, readers, writer, issued, counter, histogram, req, labels,
                   todo, cursor, vec, resp, error, db0, before, snap,
                   recorder, panicked>>

\* track_metrics: metrics::histogram!(..), then the response is returned
record_histogram(r) ==
    /\ pc[r] = "histogram"
    /\ histogram' = Record(histogram, Labels(r))
    /\ pc' = [pc EXCEPT ![r] = "done"]
    /\ UNCHANGED <<db, readers, writer, issued, counter, req, labels,
                   todo, cursor, vec, resp, error, db0, before, snap,
                   recorder, panicked>>

Next ==
    \/ app
    \/ \E r \in Reqs :
        \/ \E q \in Requests : Fallback(r, q)
        \/ \E q \in Requests : track_metrics(r, q)
        \/ MethodNotAllowed(r)
        \/ metrics(r)
        \/ get_todos_read(r)
        \/ get_todos_values(r)
        \/ get_todos_collect(r)
        \/ get_todo_by_id_read(r)
        \/ get_todo_by_id_get(r)
        \/ save_todo_new(r)
        \/ JsonRejection(r)
        \/ save_todo_write(r)
        \/ save_todo_insert(r)
        \/ Timeout(r)
        \/ increment_counter(r)
        \/ record_histogram(r)

Spec == Init /\ [][Next]_vars

(***************************************************************************)
(* Vocabulary of the properties.                                           *)
(***************************************************************************)
\* the inner service has answered request r
Answered(r) == pc[r] \in {"counter", "histogram", "done"}

\* the response of request r has been returned to the client
Returned(r) == pc[r] = "done"

\* request r is a POST /todos that save_todo answered
Created(r) == Handler(req[r]) = "save_todo" /\ Answered(r) /\ resp[r].status = 201

\* the Todo a create returned
CreatedTodo(r) == resp[r].body.todo

\* request r is a GET /todos that get_todos answered
Listed(r) == Handler(req[r]) = "get_todos" /\ Answered(r)

\* request r is a GET /todos/:id that get_todo_by_id answered
Got(r) == Handler(req[r]) = "get_todo_by_id" /\ Answered(r)

\* every POST /todos that has arrived was returned before request r arrived
AfterAllCreates(r) ==
    \A s \in Reqs \ {r} :
        pc[s] # "idle" /\ Handler(req[s]) = "save_todo" => s \in before[r]

\* C1: created Todos have pairwise different identifiers, and on a store that
\* started empty a list issued after every create has returned answers 200 with
\* exactly the created Todos: the same number, the same field values (and the
\* empty sequence when there was no create).
C1_ListReturnsCreated ==
    /\ \A r, s \in Reqs :
        r # s /\ Created(r) /\ Created(s) => CreatedTodo(r).id # CreatedTodo(s).id
    /\ \A r \in Reqs :
        db0 = EmptyDb /\ Listed(r) /\ AfterAllCreates(r) =>
            LET creates == {s \in Reqs : Created(s)} IN
            /\ resp[r].status = 200
            /\ resp[r].body = JsonArray({CreatedTodo(s) : s \in creates})
            /\ Cardinality(resp[r].body.items) = Cardinality(creates)

\* a list that came after a returned create on a store that started empty
C1_Witness ==
    \E r \in Reqs :
        /\ db0 = EmptyDb /\ Listed(r) /\ Returned(r) /\ AfterAllCreates(r)
        /\ \E s \in Reqs : Created(s)
        /\ resp[r].body.items # {}

\* C2: concurrent creates all succeed with pairwise different identifiers and
\* none is lost: the store holds one more entry per answered create, each
\* created Todo is in it, and a later list returns all of them.
C2_NoLostInsert ==
    LET creates == {r \in Reqs : Created(r)} IN
    /\ \A r \in Reqs : todo[r] # None /\ Answered(r) => Created(r)
    /\ \A r, s \in creates : r # s => CreatedTodo(r).id # CreatedTodo(s).id
    /\ \A r \in creates :
        CreatedTodo(r).id \in DOMAIN db /\ db[CreatedTodo(r).id] = CreatedTodo(r)
    /\ Cardinality(DOMAIN db) = Cardinality(DOMAIN db0) + Cardinality(creates)
    /\ \A l \in Reqs : Listed(l) =>
        \A r \in creates \cap before[l] : CreatedTodo(r) \in resp[l].body.items

\* two creates that were in flight together have both returned
C2_Witness ==
    \E r, s \in Reqs :
        /\ r # s /\ Created(r) /\ Created(s) /\ Returned(r) /\ Returned(s)
        /\ r \notin before[s] /\ s \notin before[r]
        /\ Cardinality(DOMAIN db) = Cardinality(DOMAIN db0) + 2

\* C3: once save_todo runs it answers 201 with a Todo that has the text and
\* the user of the input and completed = false; its identifier is not a key of
\* the store right before the insertion, and afterwards the store maps the
\* identifier to the returned Todo.
C3_CreateContract ==
    \A r \in Reqs :
        /\ pc[r] = "insert" => todo[r].id \notin DOMAIN db
        /\ todo[r] # None /\ Answered(r) =>
            /\ resp[r].status = 201
            /\ resp[r].body.json = "object"
            /\ CreatedTodo(r).text = req[r].json.text
            /\ CreatedTodo(r).user = req[r].json.user
            /\ CreatedTodo(r).completed = FALSE
            /\ CreatedTodo(r).id \in DOMAIN db
            /\ db[CreatedTodo(r).id] = CreatedTodo(r)

\* a create returned its Todo into a store that had been seeded
C3_Witness ==
    \E r \in Reqs :
        /\ Created(r) /\ Returned(r)
        /\ CreatedTodo(r).user = "user"
        /\ db0 = SeededDb

\* the Todos stored under identifier id when request r arrived: seeded, or
\* inserted by a create that had already returned
KnownAtArrival(r, id) ==
    {db0[k] : k \in (DOMAIN db0) \cap {id}}
    \cup {CreatedTodo(s) : s \in {c \in before[r] : Created(c) /\ CreatedTodo(c).id = id}}

\* C4: a get of a Todo that was in the store when the get started (seeded, or
\* created by a request already answered) returns 200 with exactly that Todo.
C4_GetReturnsStored ==
    \A r \in Reqs : Got(r) =>
        \A t \in KnownAtArrival(r, req[r].uri[2]) :
            resp[r] = Response(200, JsonTodo(t))

\* a get returned a Todo that an earlier request had created
C4_Witness ==
    \E r \in Reqs :
        /\ Got(r) /\ Returned(r)
        /\ \E s \in before[r] : Created(s) /\ CreatedTodo(s).id = req[r].uri[2]

Counted(r) == pc[r] \in {"histogram", "done"}

\* the label combination of request r: its method, the route that matched (the
\* literal path when none did) and its final status
RequestLabel(r) ==
    [method |-> req[r].method, path |-> PathLabel(req[r]), status |-> resp[r].status]

\* the counter holds, under every label combination, the number of the
\* requests among `requests` that have that combination
CounterCounts(requests) ==
    \A l \in (DOMAIN counter) \cup {RequestLabel(r) : r \in requests} :
        Count(counter, l) = Cardinality({r \in requests : RequestLabel(r) = l})

\* C6 as claimed: every request, whatever its outcome, is counted exactly once
\* under its label combination, and under no other.
C6_EveryRequestCounted ==
    CounterCounts({r \in Reqs : Counted(r)})

\* C6 as amended: every request that a route matches, whatever its outcome
\* (success, 405, 422 or timeout), is counted exactly once under its label
\* combination and under no other; a request no route matches is not counted.
C6_MatchedRequestCounted ==
    CounterCounts({r \in Reqs : Counted(r) /\ Handler(req[r]) # "fallback"})

\* two returned requests of different outcome, one of them a client error,
\* next to a request that no route matched
C6_Witness ==
    \E r, s \in Reqs :
        /\ r # s /\ Returned(r) /\ Returned(s)
        /\ Handler(req[r]) # "fallback"
        /\ resp[r].status \in {405, 408, 422}
        /\ Count(counter, RequestLabel(r)) = 1
        /\ Handler(req[s]) = "fallback"

\* C7: a request whose handler was still pending when the timeout fired is
\* answered with status 408, the Elapsed error does not reach the client, and
\* 408 is the status track_metrics counts for it.
C7_TimeoutIs408 ==
    \A r \in Reqs : error[r] = "Elapsed" =>
        /\ Answered(r)
        /\ resp[r] = Response(408, Plain)
        /\ Counted(r) =>
            LET l == [method |-> req[r].method, path |-> MatchedPath(req[r].uri),
                      status |-> 408] IN
            Count(counter, l) =
                Cardinality({s \in Reqs : Counted(s) /\ error[s] = "Elapsed"
                                          /\ req[s].method = req[r].method
                                          /\ req[s].uri = req[r].uri})

\* a timed-out request has been returned to its client
C7_Witness ==
    \E r \in Reqs : error[r] = "Elapsed" /\ Returned(r) /\ resp[r].status = 408

\* the Todos in the store that neither were seeded nor belong to a create that
\* was answered 201
Unaccounted ==
    Values(db) \ (Values(db0) \cup {CreatedTodo(s) : s \in {c \in Reqs : Created(c)}})

Reading(r) == pc[r] \in {"values", "get"}

\* request r is inside the write of the store
Writing(r) == pc[r] = "insert"

\* C9: a request inside create is the only request accessing the store; the
\* lock's bookkeeping names exactly the requests inside the store.
C9_LockDiscipline ==
    /\ \A r, s \in Reqs : r # s /\ Writing(r) => ~Reading(s) /\ ~Writing(s)
    /\ readers = {r \in Reqs : Reading(r)}
    /\ \A r \in Reqs : Writing(r) <=> writer = r

\* a list and a get hold the read lock at the same time
C9_Witness ==
    \E r, s \in Reqs :
        /\ r # s /\ Reading(r) /\ Reading(s)
        /\ Handler(req[r]) = "get_todos" /\ Handler(req[s]) = "get_todo_by_id"
        /\ readers = {r, s}

\* C10: the sequence list returns is the content of the store at one instant
\* of the operation, the one at which it took the read lock, and it stays that
\* whatever is created afterwards.
C10_ListIsSnapshot ==
    \A r \in Reqs : Listed(r) =>
        resp[r] = Response(200, JsonArray(Values(snap[r])))

\* a create committed after a list had returned: the store has moved on
C10_Witness ==
    \E r, s \in Reqs :
        /\ Listed(r) /\ Returned(r)
        /\ Created(s) /\ r \in before[s]
        /\ resp[r].body.items # Values(db)

\* C11: the store is create-only: no step removes an entry or changes the
\* Todo stored under an identifier that is already a key.
C11_CreateOnly ==
    [][\A k \in DOMAIN db : k \in DOMAIN db' /\ db'[k] = db[k]]_vars

\* a create has committed into a store that already held an entry
C11_Witness ==
    /\ Cardinality(DOMAIN db) >= 2
    /\ \E r \in Reqs : Created(r) /\ Returned(r)

\* request r takes a step inside get_todos or get_todo_by_id
ReadStep(r) ==
    /\ Handler(req[r]) \in {"get_todos", "get_todo_by_id"}
    /\ pc[r] \in {"next", "values", "get"}
    /\ pc'[r] # pc[r] \/ cursor'[r] # cursor[r]

StoreRequests ==
    {q \in Requests : Handler(q) \in {"get_todos", "get_todo_by_id", "save_todo"}
                      /\ q.json # Malformed}

\* hyper keeps the connection: the task of an answered request is free again
NextRequest(r) ==
    /\ pc[r] = "counter"
    /\ pc' = [pc EXCEPT ![r] = "idle"]
    /\ req' = [req EXCEPT ![r] = NoRequest]
    /\ labels' = [labels EXCEPT ![r] = NoLabels]
    /\ todo' = [todo EXCEPT ![r] = None]
    /\ cursor' = [cursor EXCEPT ![r] = 0]
    /\ vec' = [vec EXCEPT ![r] = {}]
    /\ resp' = [resp EXCEPT ![r] = NoResponse]
    /\ snap' = [snap EXCEPT ![r] = EmptyDb]
    /\ UNCHANGED <<db, readers, writer, issued, counter, histogram, error,
                   db0, before,
                   recorder, panicked>>

\* the steps of request r that wait for nothing but the scheduler and the lock
StoreStep(r) ==
    \/ get_todos_read(r)
    \/ get_todos_values(r)
    \/ get_todos_collect(r)
    \/ get_todo_by_id_read(r)
    \/ get_todo_by_id_get(r)
    \/ save_todo_write(r)
    \/ save_todo_insert(r)

StreamNext ==
    \/ app
    \/ \E r \in Reqs :
        \/ \E q \in StoreRequests : track_metrics(r, q)
        \/ save_todo_new(r)
        \/ StoreStep(r)
        \/ NextRequest(r)

\* fair scheduling: a task that can take a step of its handler, continuously,
\* takes it.  Arrivals and request bodies are the clients' and are not forced.
StreamFairSpec ==
    Init /\ [][StreamNext]_vars /\ \A r \in Reqs : WF_vars(StoreStep(r))

\* request r has started a store operation and has not yet answered
StoreOp(r) ==
    \/ pc[r] \in {"values", "get", "write", "insert"}
    \/ pc[r] = "next" /\ Handler(req[r]) \in {"get_todos", "get_todo_by_id"}

\* request r has answered and holds nothing of the lock
Released(r) == pc[r] = "counter" /\ r \notin readers /\ writer # r

\* a request arrives
Arrival == \E r \in Reqs : pc[r] = "idle" /\ pc'[r] # "idle"

\* C13 as claimed: under fair scheduling every request that starts a store
\* operation gets the lock, completes the operation and releases the lock:
\* no request waits forever.
C13_NoWaitingForever == \A r \in Reqs : StoreOp(r) ~> Released(r)

\* C13: under fair scheduling every request that has the lock completes its
\* operation and releases the lock, and once requests stop arriving every
\* request that started a store operation completes it.
C13_NoDeadlock ==
    /\ \A r \in Reqs : (Reading(r) \/ Writing(r)) ~> Released(r)
    /\ (<>[][~Arrival]_vars) => (\A r \in Reqs : StoreOp(r) ~> Released(r))

\* a create waits for the write lock while a request that came after an earlier
\* answer of the same task holds the read lock
C13_Witness ==
    \E r, s \in Reqs :
        /\ pc[r] = "write"
        /\ Reading(s)
        /\ db # db0

\* C14: the metrics middleware is a transparent pass-through: once the inner
\* pipeline has answered a request, no step changes the response (status and
\* body), and the request stays answered until the response is returned.
C14_PassThrough ==
    [][\A r \in Reqs : Answered(r) => resp'[r] = resp[r] /\ Answered(r)']_vars

\* a create and a timed-out request were both recorded and returned
C14_Witness ==
    \E r, s \in Reqs :
        /\ Created(r) /\ Returned(r) /\ Count(histogram, Labels(r)) >= 1
        /\ error[s] = "Elapsed" /\ Returned(s) /\ Count(histogram, Labels(s)) >= 1

\* a GET /metrics is about to render: what it reads is the present state
Scraping(s) == pc[s] = "next" /\ Handler(req[s]) = "metrics"

\* the label combinations either aggregate knows
LabelSets == (DOMAIN counter) \cup (DOMAIN histogram)

\* the requests between their increment_counter! and their histogram!
BetweenUpdates(l) == {r \in Reqs : pc[r] = "histogram" /\ Labels(r) = l}

\* C15 as claimed: the two updates of a request are one atomic step: in every
\* state a concurrent GET /metrics can observe, each label combination has as
\* many histogram observations as its counter says.
C15_AtomicUpdate ==
    (\E s \in Reqs : Scraping(s)) =>
        \A l \in LabelSets : Count(histogram, l) = Count(counter, l)

\* C15: the counter is incremented first and the histogram recorded in a
\* second step: for each label combination the histogram holds the counter's
\* value less the requests that are between their two updates, so the two
\* agree exactly when no request is between them.
C15_HistogramLagsCounter ==
    \A l \in LabelSets :
        Count(counter, l) = Count(histogram, l) + Cardinality(BetweenUpdates(l))

\* a scrape is about to render while another request has incremented the
\* counter and not yet recorded its latency
C15_Witness ==
    \E s, r \in Reqs :
        /\ Scraping(s)
        /\ pc[r] = "histogram"
        /\ Count(counter, Labels(r)) = Count(histogram, Labels(r)) + 1

\* request r is updating the metrics aggregates
Updating(r) == pc[r] \in {"counter", "histogram"}

\* C16: metrics updates are independent of store access: a request that is
\* updating the aggregates holds neither lock of the store, and its update can
\* be taken in the present state, whoever holds the store's locks.
C16_MetricsIndependentOfStore ==
    \A r \in Reqs :
        Updating(r) =>
            /\ r \notin readers
            /\ writer # r
            /\ ENABLED (increment_counter(r) \/ record_histogram(r))

\* a request is about to increment the counter while another request holds the
\* write lock of the store
C16_Witness ==
    \E r, s \in Reqs :
        /\ pc[r] = "counter"
        /\ Writing(s) /\ writer = s

\* the route templates of app()
Routes == {<<"/todos">>, <<"/todos/:id">>, <<"/metrics">>, <<"/api-doc/openapi.json">>}

\* C17: the path label is the matched route template, not the literal path:
\* every label combination of either aggregate has a route template as its
\* path, and two recorded GET /todos/{id} with the same final status have the
\* same label combination, whatever their identifiers.
C17_PathIsTemplate ==
    /\ \A l \in LabelSets : l.path \in Routes
    /\ \A r, s \in Reqs :
        /\ Counted(r) /\ Counted(s)
        /\ Handler(req[r]) = "get_todo_by_id" /\ Handler(req[s]) = "get_todo_by_id"
        /\ resp[r].status = resp[s].status
        => Labels(r) = Labels(s)

\* two gets with different identifiers were counted under one label combination
C17_Witness ==
    \E r, s \in Reqs :
        /\ Got(r) /\ Got(s) /\ Returned(r) /\ Returned(s)
        /\ req[r].uri # req[s].uri
        /\ Count(counter, Labels(r)) = 2
        /\ Cardinality(DOMAIN counter) = 1

\* C18: the request counter of every label combination is monotonic: no step,
\* a GET /metrics scrape included, removes a label combination or lowers its
\* value.
C18_CounterMonotonic ==
    [][\A l \in DOMAIN counter :
            l \in DOMAIN counter' /\ counter'[l] >= counter[l]]_vars

\* a scrape has rendered and been counted itself, and a counter stands at 2
C18_Witness ==
    \E s \in Reqs :
        /\ Handler(req[s]) = "metrics" /\ Returned(s)
        /\ \E l \in DOMAIN counter : counter[l] = 2

\* C19 as claimed: app(db) can be called any number of times in one process and
\* every call returns a working router: no call of app panics.
C19_AppNeverPanics == ~panicked

\* the timeout has cancelled request r
Cancelled(r) == error[r] = "Elapsed"

\* C20: a store lock is never held across a suspension point: a request that
\* is suspended at an .await, or that the timeout has cancelled, holds neither
\* the read lock nor the write lock.
C20_NoLockAcrossAwait ==
    \A r \in Reqs :
        Suspended(r) \/ Cancelled(r) => r \notin readers /\ writer # r

\* a request that arrived after a timed-out request had been answered took the
\* write lock and created its Todo
C20_Witness ==
    \E r, s \in Reqs :
        /\ Cancelled(s) /\ Returned(s)
        /\ s \in before[r]
        /\ Created(r)

====
